---- MODULE Spec2Model ----
(***************************************************************************)
(* Server-side bootstrap middleware of converter-react                     *)
(* (src/server/middleware.js): the query parser _getQueryBootstrap and the *)
(* two middleware factories flux.fetch (singleton store, fetch first) and  *)
(* flux.actions (one store and one listener set per request).              *)
(*                                                                         *)
(* JavaScript strings are sequences of one-character strings; the value    *)
(* `undefined` is the sequence Undefined, which no string equals.          *)
(***************************************************************************)
EXTENDS Naturals, Sequences, FiniteSets, TLC

\* Number of requests one middleware instance handles in a run.
NumReqs == 2
\* Number of action events the dispatcher delivers over a run.
MaxEvents == 2

Reqs == 1..NumReqs

Undefined == <<"undefined">>
Noss == <<"n", "o", "s", "s">>

\* Values of req.query.__mode: key absent, or the "no server rendering" flag.
Modes == {Undefined, Noss}

\* Values of req.query.__bootstrap: key absent, empty types segment, no colon
\* (no value), types and value.
Bootstraps ==
  { Undefined,
    <<":", "1">>,
    <<"a">>,
    <<"a", ":", "1">> }

\* Errors a rejected fetch or a CONVERSION_ERROR event carries.
Errors == {"E1", "E2"}

\* Exceptions raised by the collaborators inside a callback.
ErrBootstrap == "ErrBootstrap"
ErrSnapshot == "ErrSnapshot"
ErrRender == "ErrRender"
ErrNext == "ErrNext"

\* The argument of next() when it is called without an error.
NoErr == "none"

\* The payload the conversions API resolves to for request r.
Conversions(r) == <<"conv", ToString(r)>>

-----------------------------------------------------------------------------
(* String.prototype.split(":") *)

\* Index of the first ":" of s at or after i, Len(s) + 1 when there is none.
RECURSIVE IndexOfColon(_, _)
IndexOfColon(s, i) ==
  IF i > Len(s) THEN Len(s) + 1
  ELSE IF s[i] = ":" THEN i
  ELSE IndexOfColon(s, i + 1)

\* bootstrap.split(":"): every maximal colon-free piece, in order.
RECURSIVE Split(_)
Split(s) ==
  LET i == IndexOfColon(s, 1) IN
    IF i > Len(s) THEN <<s>>
    ELSE <<SubSeq(s, 1, i - 1)>> \o Split(SubSeq(s, i + 1, Len(s)))

\* parts[i] of a JavaScript array (0-based): undefined past the end.
At(parts, i) == IF i + 1 <= Len(parts) THEN parts[i + 1] ELSE Undefined

\* !x for a string or undefined.
Falsy(x) == x = Undefined \/ x = <<>>

\* The `null` result of _getQueryBootstrap.
Null == [types |-> Undefined, value |-> Undefined]

\* The parser without its `if (!types) { return null; }` test.
_getQueryBootstrapKeepsEmptyTypes(query) ==
  LET bootstrap == query.__bootstrap IN
    IF Falsy(bootstrap) THEN Null
    ELSE LET parts == Split(bootstrap)
         IN [types |-> At(parts, 0), value |-> At(parts, 1)]

_getQueryBootstrap(query) ==
  LET bootstrap == query.__bootstrap IN
    IF Falsy(bootstrap) THEN Null
    ELSE LET parts == Split(bootstrap)
             types == At(parts, 0)
             value == At(parts, 1)
         IN IF Falsy(types) THEN Null
            ELSE [types |-> types, value |-> value]

-----------------------------------------------------------------------------
(* The store (Flux instance with its ConvertStore) and the renderer *)

\* State of a fresh or flushed ConvertStore.
StoreDefaults ==
  [conversions |-> <<"init">>, types |-> <<"init">>, value |-> <<"init">>]

\* JSON.stringify of an object: members whose value is undefined are left out.
JSONStringify(obj) ==
  [k \in {j \in DOMAIN obj : obj[j] # Undefined} |-> obj[k]]

\* flux.bootstrap(json): the members present in json are assigned to the store.
Bootstrap(state, json) ==
  [k \in DOMAIN state |-> IF k \in DOMAIN json THEN json[k] ELSE state[k]]

\* flux.takeSnapshot(): the serialized store state.
TakeSnapshot(state) == JSONStringify(state)

\* flux.flush(): the store is reset.
Flush(state) == StoreDefaults

\* ReactDOMServer.renderToString(new Component({flux})): markup of the state.
RenderToString(state) == <<"html", state>>

-----------------------------------------------------------------------------
VARIABLES
  strategy,   \* strategy[r]: the middleware serving r: "fetch" or "actions"
  query,      \* query[r]: req.query of request r
  parsed,     \* parsed[r]: queryBootstrap, the parser's result for r
  pc,         \* pc[r]: "idle", "passed", "waiting", "done"
  locals,     \* locals[r]: res.locals of request r
  nextCalls,  \* nextCalls[r]: the arguments of the calls of next, in order
  store,      \* state of the singleton store of flux.fetch
  fluxes,     \* fluxes[f]: state of store f, created by flux.actions
  listeners,  \* listeners[r]: events with a registered action listener
  failures,   \* failures[r]: the errors raised so far while serving r
  log,        \* log[r]: the collaborator calls made for r, in order
  events,     \* number of action events delivered so far
  serial      \* no fetch was started while another fetch was pending

vars ==
  <<strategy, query, parsed, pc, locals, nextCalls, store, fluxes, listeners,
    failures, log, events, serial>>

NoQuery == [__mode |-> Undefined, __bootstrap |-> Undefined]
NoLocals == [bootstrapData |-> <<>>, bootstrapComponent |-> <<>>]

Init ==
  /\ strategy = [r \in Reqs |-> "none"]
  /\ query = [r \in Reqs |-> NoQuery]
  /\ parsed = [r \in Reqs |-> Null]
  /\ pc = [r \in Reqs |-> "idle"]
  /\ locals = [r \in Reqs |-> NoLocals]
  /\ nextCalls = [r \in Reqs |-> <<>>]
  /\ store = StoreDefaults
  /\ fluxes = [r \in Reqs |-> StoreDefaults]
  /\ listeners = [r \in Reqs |-> {}]
  /\ failures = [r \in Reqs |-> {}]
  /\ log = [r \in Reqs |-> <<>>]
  /\ events = 0
  /\ serial = TRUE

\* Requests reach the middleware in the order of their numbers.
Arrives(r) ==
  /\ pc[r] = "idle"
  /\ \A p \in Reqs : p < r => pc[p] # "idle"

\* The gates without the `__mode === "noss"` test.
PassesGatesIgnoringMode(q) == _getQueryBootstrap(q) # Null

\* The gates both handlers start with: the __mode test, then the parser.
PassesGates(q) ==
  /\ q.__mode # Noss
  /\ _getQueryBootstrap(q) # Null

\* The render guard always failing.
ServerRenderNever(q) == FALSE

\* The render guard with its comparison inverted.
ServerRenderInverted(q) == q.__mode = Noss

\* The test `req.query.__mode !== "noss"` that guards the render.
ServerRender(q) == q.__mode # Noss

\* `return next();` at a gate: nothing else happens for the request.
PassThrough(r, q) ==
  /\ query' = [query EXCEPT ![r] = q]
  /\ pc' = [pc EXCEPT ![r] = "passed"]
  /\ nextCalls' = [nextCalls EXCEPT ![r] = Append(@, NoErr)]
  /\ log' = [log EXCEPT ![r] = Append(@, <<"next", NoErr>>)]
  /\ UNCHANGED <<parsed, locals, store, fluxes, listeners, failures, events,
                 serial>>

-----------------------------------------------------------------------------
(* flux.fetch: the "fetch first" middleware with the singleton store *)

\* The catch callback calling next without its argument.
CatchWithoutError(err) ==
  [calls |-> <<NoErr>>, log |-> << <<"next", NoErr>> >>]

\* `.catch(function (err) { next(err); })`
Catch(err) == [calls |-> <<err>>, log |-> << <<"next", err>> >>]

\* The callback given to `.then`, run on store state st for request query q
\* and the fetched conversions; throwAt names the collaborator call that
\* raises an exception (NoErr: none does).  The result is the store state the
\* callback leaves, the res.locals it wrote, its calls of next (those of the
\* chained catch included) and its collaborator calls.
FetchThen(st, q, conversions, throwAt) ==
  LET qb == _getQueryBootstrap(q)
      json == JSONStringify([conversions |-> conversions,
                             types |-> qb.types,
                             value |-> qb.value])
      booted == Bootstrap(st, json)
      data == TakeSnapshot(booted)
      withData == [NoLocals EXCEPT !.bootstrapData = <<data>>]
      ssr == ServerRender(q)
      withMarkup ==
        IF ssr
          THEN [withData EXCEPT !.bootstrapComponent = <<RenderToString(booted)>>]
          ELSE withData
      rendered == IF ssr THEN << <<"renderToString">> >> ELSE <<>>
  IN
    CASE throwAt = ErrBootstrap ->
           [store |-> st, locals |-> NoLocals,
            calls |-> Catch(ErrBootstrap).calls,
            log |-> << <<"bootstrap">> >> \o Catch(ErrBootstrap).log]
      [] throwAt = ErrSnapshot ->
           [store |-> booted, locals |-> NoLocals,
            calls |-> Catch(ErrSnapshot).calls,
            log |-> << <<"bootstrap">>, <<"takeSnapshot">> >>
                      \o Catch(ErrSnapshot).log]
      [] throwAt = ErrRender /\ ssr ->
           [store |-> booted, locals |-> withData,
            calls |-> Catch(ErrRender).calls,
            log |-> << <<"bootstrap">>, <<"takeSnapshot">>,
                       <<"renderToString">> >> \o Catch(ErrRender).log]
      [] throwAt = ErrNext ->
           [store |-> Flush(booted), locals |-> withMarkup,
            calls |-> <<NoErr>> \o Catch(ErrNext).calls,
            log |-> << <<"bootstrap">>, <<"takeSnapshot">> >> \o rendered
                      \o << <<"flush">>, <<"next", NoErr>> >>
                      \o Catch(ErrNext).log]
      [] OTHER ->
           [store |-> Flush(booted), locals |-> withMarkup,
            calls |-> <<NoErr>>,
            log |-> << <<"bootstrap">>, <<"takeSnapshot">> >> \o rendered
                      \o << <<"flush">>, <<"next", NoErr>> >>]

\* The rejection path resetting the store as well.
OnRejectedFlushes(st, err) ==
  [store |-> Flush(st), calls |-> Catch(err).calls,
   log |-> << <<"flush">> >> \o Catch(err).log]

\* The chain `.then(...).catch(...)` on a rejection with err: the `.then`
\* callback is skipped, so the store state st is left as it is, and the
\* `.catch` callback runs.
OnRejected(st, err) ==
  [store |-> st, calls |-> Catch(err).calls, log |-> Catch(err).log]

\* Some request of the fetch middleware awaits its fetch.
FetchPending == \E p \in Reqs : strategy[p] = "fetch" /\ pc[p] = "waiting"

\* The handler flux.fetch returns, called for request r.
FetchMiddleware(r) ==
  /\ Arrives(r)
  /\ strategy' = [strategy EXCEPT ![r] = "fetch"]
  /\ \E m \in Modes, b \in Bootstraps :
       LET q == [__mode |-> m, __bootstrap |-> b] IN
         IF PassesGates(q)
           THEN /\ query' = [query EXCEPT ![r] = q]
                /\ parsed' = [parsed EXCEPT ![r] = _getQueryBootstrap(q)]
                /\ pc' = [pc EXCEPT ![r] = "waiting"]
                /\ log' = [log EXCEPT ![r] =
                             Append(@, <<"fetchConversions",
                                         _getQueryBootstrap(q).types,
                                         _getQueryBootstrap(q).value>>)]
                /\ serial' = (serial /\ ~FetchPending)
                /\ UNCHANGED <<locals, nextCalls, store, fluxes, listeners,
                               failures, events>>
           ELSE PassThrough(r, q)

\* The fetch of request r resolves and the `.then` callback runs to its end.
FetchResolved(r) ==
  /\ strategy[r] = "fetch"
  /\ pc[r] = "waiting"
  /\ \E throwAt \in {NoErr, ErrBootstrap, ErrSnapshot, ErrRender, ErrNext} :
       LET out == FetchThen(store, query[r], Conversions(r), throwAt) IN
         /\ store' = out.store
         /\ locals' = [locals EXCEPT ![r] = out.locals]
         /\ nextCalls' = [nextCalls EXCEPT ![r] = @ \o out.calls]
         /\ log' = [log EXCEPT ![r] = @ \o out.log]
         /\ failures' = [failures EXCEPT ![r] =
                           IF throwAt = NoErr THEN @ ELSE @ \cup {throwAt}]
  /\ pc' = [pc EXCEPT ![r] = "done"]
  /\ UNCHANGED <<strategy, query, parsed, fluxes, listeners, events, serial>>

\* The fetch of request r rejects with err and the `.catch` callback runs.
FetchRejected(r) ==
  /\ strategy[r] = "fetch"
  /\ pc[r] = "waiting"
  /\ \E err \in Errors :
       LET out == OnRejected(store, err) IN
         /\ store' = out.store
         /\ nextCalls' = [nextCalls EXCEPT ![r] = @ \o out.calls]
         /\ log' = [log EXCEPT ![r] = @ \o out.log]
         /\ failures' = [failures EXCEPT ![r] = @ \cup {err}]
  /\ pc' = [pc EXCEPT ![r] = "done"]
  /\ UNCHANGED <<strategy, query, parsed, locals, fluxes, listeners, events,
                 serial>>

-----------------------------------------------------------------------------
(* flux.actions: the "actions" middleware, one store per request *)

UPDATE_CONVERSIONS == "UPDATE_CONVERSIONS"
CONVERSION_ERROR == "CONVERSION_ERROR"

\* `_done` leaving the listeners registered.
_doneKeepsListeners(st, err) ==
  [store |-> Flush(st), listeners |-> {UPDATE_CONVERSIONS, CONVERSION_ERROR},
   calls |-> <<err>>,
   log |-> << <<"flush">>, <<"next", err>> >>]

\* `_done` calling next before the store is flushed.
_doneFlushesLast(st, err) ==
  [store |-> Flush(st), listeners |-> {},
   calls |-> <<err>>,
   log |-> << <<"removeAllActionListeners">>, <<"next", err>>, <<"flush">> >>]

\* `_done` calling next without its argument.
_doneDropsError(st, err) ==
  [store |-> Flush(st), listeners |-> {},
   calls |-> <<NoErr>>,
   log |-> << <<"removeAllActionListeners">>, <<"flush">>,
              <<"next", NoErr>> >>]

\* `_done(err)` on store state st: remove the listeners, flush, call next.
_done(st, err) ==
  [store |-> Flush(st), listeners |-> {},
   calls |-> <<err>>,
   log |-> << <<"removeAllActionListeners">>, <<"flush">>, <<"next", err>> >>]

\* The UPDATE_CONVERSIONS listener on store state st for request query q;
\* throwAt names the collaborator call that raises an exception (NoErr: none
\* does), which leaves the listener before `_done()` is reached.
UpdateListener(st, q, throwAt) ==
  LET data == TakeSnapshot(st)
      withData == [NoLocals EXCEPT !.bootstrapData = <<data>>]
      ssr == ServerRender(q)
      withMarkup ==
        IF ssr
          THEN [withData EXCEPT !.bootstrapComponent = <<RenderToString(st)>>]
          ELSE withData
      rendered == IF ssr THEN << <<"renderToString">> >> ELSE <<>>
      done == _done(st, NoErr)
  IN
    CASE throwAt = ErrSnapshot ->
           [store |-> st, listeners |-> {UPDATE_CONVERSIONS, CONVERSION_ERROR},
            locals |-> NoLocals, calls |-> <<>>,
            log |-> << <<"takeSnapshot">> >>]
      [] throwAt = ErrRender /\ ssr ->
           [store |-> st, listeners |-> {UPDATE_CONVERSIONS, CONVERSION_ERROR},
            locals |-> withData, calls |-> <<>>,
            log |-> << <<"takeSnapshot">>, <<"renderToString">> >>]
      [] OTHER ->
           [store |-> done.store, listeners |-> done.listeners,
            locals |-> withMarkup, calls |-> done.calls,
            log |-> << <<"takeSnapshot">> >> \o rendered \o done.log]

\* One store created by the factory and used by every request.
FluxOfSingleton(r) == 1

\* The store `new Flux()` creates inside the handler: one for each request.
FluxOf(r) == r

\* The handler invoking the actions before it registers the listeners.
ActionsStartFiresFirst(qb) ==
  [store |-> [StoreDefaults EXCEPT !.types = qb.types, !.value = qb.value],
   listeners |-> {UPDATE_CONVERSIONS, CONVERSION_ERROR},
   log |-> << <<"Flux">>,
              <<"setConversionTypes", qb.types>>,
              <<"setConversionValue", qb.value>>,
              <<"fetchConversions", qb.types, qb.value>>,
              <<"addActionListener", UPDATE_CONVERSIONS>>,
              <<"addActionListener", CONVERSION_ERROR>> >>]

\* The handler's work once the gates are passed, for the parsed instruction
\* qb: the two listeners are registered, then the three actions are invoked;
\* the store takes the types and the value at once, the fetch is pending.
ActionsStart(qb) ==
  [store |-> [StoreDefaults EXCEPT !.types = qb.types, !.value = qb.value],
   listeners |-> {UPDATE_CONVERSIONS, CONVERSION_ERROR},
   log |-> << <<"Flux">>,
              <<"addActionListener", UPDATE_CONVERSIONS>>,
              <<"addActionListener", CONVERSION_ERROR>>,
              <<"setConversionTypes", qb.types>>,
              <<"setConversionValue", qb.value>>,
              <<"fetchConversions", qb.types, qb.value>> >>]

\* The handler flux.actions returns, called for request r.
ActionsMiddleware(r) ==
  /\ Arrives(r)
  /\ strategy' = [strategy EXCEPT ![r] = "actions"]
  /\ \E m \in Modes, b \in Bootstraps :
       LET q == [__mode |-> m, __bootstrap |-> b]
           qb == _getQueryBootstrap(q)
       IN
         IF PassesGates(q)
           THEN /\ query' = [query EXCEPT ![r] = q]
                /\ parsed' = [parsed EXCEPT ![r] = _getQueryBootstrap(q)]
                /\ pc' = [pc EXCEPT ![r] = "waiting"]
                /\ fluxes' = [fluxes EXCEPT ![FluxOf(r)] =
                                ActionsStart(qb).store]
                /\ listeners' = [listeners EXCEPT ![r] =
                                   ActionsStart(qb).listeners]
                /\ log' = [log EXCEPT ![r] = @ \o ActionsStart(qb).log]
                /\ UNCHANGED <<locals, nextCalls, store, failures, events,
                               serial>>
           ELSE PassThrough(r, q)

\* The request's actions have been fired: its dispatcher can deliver events.
ActionsFired(r) == strategy[r] = "actions" /\ pc[r] \in {"waiting", "done"}

\* The dispatcher of request r delivers UPDATE_CONVERSIONS: the store takes
\* the conversions, then the listener runs if it is still registered.
UpdateConversionsEvent(r) ==
  /\ ActionsFired(r)
  /\ events < MaxEvents
  /\ events' = events + 1
  /\ LET st == [fluxes[FluxOf(r)] EXCEPT !.conversions = Conversions(r)] IN
       IF UPDATE_CONVERSIONS \in listeners[r]
         THEN \E throwAt \in {NoErr, ErrSnapshot, ErrRender} :
                LET out == UpdateListener(st, query[r], throwAt) IN
                  /\ fluxes' = [fluxes EXCEPT ![FluxOf(r)] = out.store]
                  /\ listeners' = [listeners EXCEPT ![r] = out.listeners]
                  /\ locals' = [locals EXCEPT ![r] = out.locals]
                  /\ nextCalls' = [nextCalls EXCEPT ![r] = @ \o out.calls]
                  /\ log' = [log EXCEPT ![r] = @ \o out.log]
                  /\ failures' = [failures EXCEPT ![r] =
                                    IF throwAt = NoErr THEN @
                                    ELSE @ \cup {throwAt}]
                  /\ pc' = [pc EXCEPT ![r] =
                              IF throwAt = NoErr THEN "done" ELSE @]
         ELSE /\ fluxes' = [fluxes EXCEPT ![FluxOf(r)] = st]
              /\ UNCHANGED <<listeners, locals, nextCalls, log, failures, pc>>
  /\ UNCHANGED <<strategy, query, parsed, store, serial>>

\* The dispatcher of request r delivers CONVERSION_ERROR carrying err: the
\* listener, which is `_done` itself, runs if it is still registered.
ConversionErrorEvent(r) ==
  /\ ActionsFired(r)
  /\ events < MaxEvents
  /\ events' = events + 1
  /\ \E err \in Errors :
       IF CONVERSION_ERROR \in listeners[r]
         THEN LET out == _done(fluxes[FluxOf(r)], err) IN
                /\ fluxes' = [fluxes EXCEPT ![FluxOf(r)] = out.store]
                /\ listeners' = [listeners EXCEPT ![r] = out.listeners]
                /\ nextCalls' = [nextCalls EXCEPT ![r] = @ \o out.calls]
                /\ log' = [log EXCEPT ![r] = @ \o out.log]
                /\ failures' = [failures EXCEPT ![r] = @ \cup {err}]
                /\ pc' = [pc EXCEPT ![r] = "done"]
         ELSE UNCHANGED <<fluxes, listeners, nextCalls, log, failures, pc>>
  /\ UNCHANGED <<strategy, query, parsed, locals, store, serial>>

-----------------------------------------------------------------------------
Next ==
  \E r \in Reqs :
    \/ FetchMiddleware(r)
    \/ FetchResolved(r)
    \/ FetchRejected(r)
    \/ ActionsMiddleware(r)
    \/ UpdateConversionsEvent(r)
    \/ ConversionErrorEvent(r)

Spec == Init /\ [][Next]_vars

-----------------------------------------------------------------------------
(* The parser alone, on every short string *)

\* Longest __bootstrap value the parser is run on.
MaxLen == 5

\* The characters of the values: a letter, a digit and the separator.
Alphabet == {"a", "1", ":"}

\* Every string of at most MaxLen characters.
Strings == UNION {[1..n -> Alphabet] : n \in 0..MaxLen}

\* Every request carries the same __bootstrap value, any string or none.
ParserInit ==
  /\ \E b \in Strings \cup {Undefined} :
       query = [r \in Reqs |-> [__mode |-> Undefined, __bootstrap |-> b]]
  /\ strategy = [r \in Reqs |-> "none"]
  /\ parsed = [r \in Reqs |-> Null]
  /\ pc = [r \in Reqs |-> "idle"]
  /\ locals = [r \in Reqs |-> NoLocals]
  /\ nextCalls = [r \in Reqs |-> <<>>]
  /\ store = StoreDefaults
  /\ fluxes = [r \in Reqs |-> StoreDefaults]
  /\ listeners = [r \in Reqs |-> {}]
  /\ failures = [r \in Reqs |-> {}]
  /\ log = [r \in Reqs |-> <<>>]
  /\ events = 0
  /\ serial = TRUE

\* `var queryBootstrap = _getQueryBootstrap(req);` for request r.
ParseQuery(r) ==
  /\ Arrives(r)
  /\ parsed' = [parsed EXCEPT ![r] = _getQueryBootstrap(query[r])]
  /\ pc' = [pc EXCEPT ![r] = "parsed"]
  /\ UNCHANGED <<strategy, query, locals, nextCalls, store, fluxes, listeners,
                 failures, log, events, serial>>

ParserNext == \E r \in Reqs : ParseQuery(r)

ParserSpec == ParserInit /\ [][ParserNext]_vars

-----------------------------------------------------------------------------
(* Properties *)

\* The request has reached its middleware.
Handled(r) == pc[r] # "idle"

\* The query carries no instruction: no __bootstrap key, or nothing before
\* the first colon of its value.
NoInstruction(q) ==
  \/ q.__bootstrap = Undefined
  \/ q.__bootstrap = <<>>
  \/ q.__bootstrap[1] = ":"

\* The set of the elements of a sequence.
Range(seq) == {seq[i] : i \in 1..Len(seq)}

\* C1: a request without the __bootstrap key, or with an empty types segment,
\* has next called once without an error within the handler's own step, by
\* either middleware, and nothing is written to its res.locals.
C1_NoInstructionPassesThrough ==
  \A r \in Reqs :
    (Handled(r) /\ NoInstruction(query[r])) =>
      /\ pc[r] = "passed"
      /\ nextCalls[r] = <<NoErr>>
      /\ locals[r] = NoLocals

\* Both middlewares have handled a request that is in server-rendering mode
\* and has an empty types segment.
C1_Witness ==
  \E r1, r2 \in Reqs :
    /\ strategy[r1] = "fetch" /\ strategy[r2] = "actions"
    /\ \A r \in {r1, r2} :
         /\ Handled(r)
         /\ query[r].__mode # Noss
         /\ query[r].__bootstrap = <<":", "1">>

\* C2: a request whose __mode is "noss" is bypassed by either middleware: one
\* call of next without an error is the only collaborator call, no store and
\* no listener exists for it, and its res.locals is untouched.
C2_NossBypassesEverything ==
  \A r \in Reqs :
    (Handled(r) /\ query[r].__mode = Noss) =>
      /\ pc[r] = "passed"
      /\ log[r] = << <<"next", NoErr>> >>
      /\ nextCalls[r] = <<NoErr>>
      /\ locals[r] = NoLocals
      /\ listeners[r] = {}
      /\ fluxes[r] = StoreDefaults
      /\ failures[r] = {}

\* Both middlewares have handled a "noss" request with a well-formed
\* instruction.
C2_Witness ==
  \E r1, r2 \in Reqs :
    /\ strategy[r1] = "fetch" /\ strategy[r2] = "actions"
    /\ \A r \in {r1, r2} :
         /\ Handled(r)
         /\ query[r].__mode = Noss
         /\ query[r].__bootstrap = <<"a", ":", "1">>

\* The request passed the gates and ended with one call of next, without an
\* error: its fetch resolved (fetch) or its success event was handled
\* (actions), and no collaborator raised an exception.
CompletedOk(r) == pc[r] = "done" /\ nextCalls[r] = <<NoErr>>

\* C3: when the fetch or the success event of a well-formed request succeeds,
\* a snapshot is in res.locals.bootstrapData and, server rendering being
\* requested, markup is in res.locals.bootstrapComponent; a request that does
\* not ask for server rendering never gets markup.
C3_SnapshotAndMarkupOnSuccess ==
  \A r \in Reqs :
    /\ CompletedOk(r) =>
         /\ Len(locals[r].bootstrapData) = 1
         /\ query[r].__mode # Noss =>
              Len(locals[r].bootstrapComponent) = 1
    /\ (Handled(r) /\ query[r].__mode = Noss) =>
         locals[r].bootstrapComponent = <<>>

\* Both middlewares have completed a well-formed request without an error.
C3_Witness ==
  \E r1, r2 \in Reqs :
    /\ strategy[r1] = "fetch" /\ strategy[r2] = "actions"
    /\ CompletedOk(r1) /\ CompletedOk(r2)

\* The fetch of request r was rejected.
Rejected(r) == strategy[r] = "fetch" /\ failures[r] \cap Errors # {}

\* C4: when the fetch of a request of the fetch middleware rejects with E,
\* next has been called exactly once, with E, and res.locals is untouched.
C4_RejectedFetchForwardsError ==
  \A r \in Reqs :
    Rejected(r) =>
      \E e \in Errors :
        /\ failures[r] = {e}
        /\ nextCalls[r] = <<e>>
        /\ locals[r] = NoLocals

\* A fetch was rejected with E2.
C4_Witness ==
  \E r \in Reqs : Rejected(r) /\ "E2" \in failures[r] /\ pc[r] = "done"

\* What the snapshot of request r holds when only r's data is in the store:
\* r's conversions and types, and r's value or, r having none, the default.
OwnSnapshot(r) ==
  LET qb == _getQueryBootstrap(query[r]) IN
    [conversions |-> Conversions(r),
     types |-> qb.types,
     value |-> IF qb.value = Undefined THEN StoreDefaults.value ELSE qb.value]

\* C5: while the requests of the fetch middleware are handled one after
\* another, the snapshot written for a request holds only that request's own
\* conversions, types and value.
C5_SerialSnapshotHoldsOwnData ==
  serial =>
    \A r \in Reqs :
      (strategy[r] = "fetch" /\ locals[r].bootstrapData # <<>>) =>
        locals[r].bootstrapData = <<OwnSnapshot(r)>>

\* The number of entries of the log of r made by the call named op.
RECURSIVE CountCalls(_, _)
CountCalls(seq, op) ==
  IF seq = <<>> THEN 0
  ELSE (IF Head(seq)[1] = op THEN 1 ELSE 0) + CountCalls(Tail(seq), op)

\* C6: a request of the actions middleware is torn down at most once and has
\* next called at most once, whatever events its dispatcher delivers and in
\* whatever order; once it is torn down no listener is registered.
C6_OneTerminalTransition ==
  \A r \in Reqs :
    strategy[r] = "actions" =>
      /\ Len(nextCalls[r]) <= 1
      /\ CountCalls(log[r], "removeAllActionListeners") <= 1
      /\ CountCalls(log[r], "flush") <= 1
      /\ pc[r] = "done" => listeners[r] = {}

\* The error event tore the request down and the success event was delivered
\* afterwards: the flushed store took the conversions, nothing else changed.
C6_Witness ==
  \E r \in Reqs :
    /\ strategy[r] = "actions"
    /\ pc[r] = "done"
    /\ nextCalls[r] = <<"E1">>
    /\ fluxes[r].conversions = Conversions(r)
    /\ locals[r] = NoLocals

\* C7: whenever next has been called for a request that passed the gates of
\* the actions middleware, on the success path and on the error path alike,
\* its listeners are removed and the last three collaborator calls were
\* removeAllActionListeners, flush, next, in this order.
C7_TeardownBeforeNext ==
  \A r \in Reqs :
    (strategy[r] = "actions" /\ pc[r] \in {"waiting", "done"}
       /\ nextCalls[r] # <<>>) =>
      /\ listeners[r] = {}
      /\ Len(log[r]) >= 3
      /\ LET n == Len(log[r]) IN
           /\ log[r][n - 2] = <<"removeAllActionListeners">>
           /\ log[r][n - 1] = <<"flush">>
           /\ log[r][n][1] = "next"

\* One request was torn down by its success event and one by its error event.
C7_Witness ==
  \E r1, r2 \in Reqs :
    /\ strategy[r1] = "actions" /\ strategy[r2] = "actions"
    /\ pc[r1] = "done" /\ pc[r2] = "done"
    /\ nextCalls[r1] = <<NoErr>>
    /\ nextCalls[r2] = <<"E2">>

\* C8: every error raised while a request is served, by a rejected fetch, by
\* an error event or by an exception in the success path, has been passed to
\* next.
C8_EveryFailureForwarded ==
  \A r \in Reqs : failures[r] \subseteq Range(nextCalls[r])

\* C9: when next has been called with an error for a request, nothing has
\* been written to the request's res.locals.
C9_NoLocalsOnError ==
  \A r \in Reqs :
    (Range(nextCalls[r]) \ {NoErr} # {}) => locals[r] = NoLocals

\* C10: in the actions middleware next is called without an argument exactly
\* when the success listener ran to its end, which is when the markup is
\* written, and with the error the event carried when the error event is
\* handled.
C10_ErrorOnlyOnFailurePath ==
  \A r \in Reqs :
    (strategy[r] = "actions" /\ pc[r] = "done") =>
      /\ locals[r].bootstrapComponent # <<>> <=> nextCalls[r] = <<NoErr>>
      /\ \A e \in Errors : e \in failures[r] <=> nextCalls[r] = <<e>>

\* The success event ended one request, its markup written, and the error
\* event carrying E1 ended another.
C10_Witness ==
  \E r1, r2 \in Reqs :
    /\ strategy[r1] = "actions" /\ strategy[r2] = "actions"
    /\ locals[r1].bootstrapComponent # <<>>
    /\ nextCalls[r1] = <<NoErr>>
    /\ failures[r2] = {"E1"}
    /\ nextCalls[r2] = <<"E1">>

\* The store state that holds the data of request r and nothing else.
OwnState(r) ==
  LET qb == _getQueryBootstrap(query[r]) IN
    [conversions |-> Conversions(r),
     types |-> qb.types,
     value |-> IF qb.value = Undefined THEN StoreDefaults.value ELSE qb.value]

\* The calls of log that act on the store or render it, in order.
RECURSIVE StoreCalls(_)
StoreCalls(seq) ==
  IF seq = <<>> THEN <<>>
  ELSE (IF Head(seq)[1] \in {"bootstrap", "takeSnapshot", "renderToString",
                             "flush"}
          THEN <<Head(seq)[1]>> ELSE <<>>) \o StoreCalls(Tail(seq))

\* C11: for requests of the fetch middleware interleaved at the fetch, each
\* request's store calls are bootstrap, takeSnapshot, renderToString, flush,
\* in this order within its one callback step, and its snapshot and its
\* markup show its own types, value and conversions only.
C11_FetchCallbackIsolated ==
  \A r \in Reqs :
    strategy[r] = "fetch" =>
      /\ StoreCalls(log[r]) \in
           { <<>>, <<"bootstrap">>, <<"bootstrap", "takeSnapshot">>,
             <<"bootstrap", "takeSnapshot", "renderToString">>,
             <<"bootstrap", "takeSnapshot", "renderToString", "flush">> }
      /\ locals[r].bootstrapData # <<>> =>
           locals[r].bootstrapData = <<TakeSnapshot(OwnState(r))>>
      /\ locals[r].bootstrapComponent # <<>> =>
           locals[r].bootstrapComponent = <<RenderToString(OwnState(r))>>

\* C12: between the steps of the fetch middleware, which is where control is
\* back with the event loop, the singleton store is in its flushed state.
C12_SingletonCleanBetweenCallbacks == store = StoreDefaults

\* C13: the step in which the fetch of a request rejects leaves the
\* singleton store as it was and makes no bootstrap, takeSnapshot or flush
\* call.
C13_RejectionLeavesStore ==
  [][\A r \in Reqs :
       (strategy[r] = "fetch" /\ pc[r] = "waiting" /\ pc'[r] = "done"
          /\ failures'[r] \cap Errors # {}) =>
         /\ store' = store
         /\ StoreCalls(log'[r]) = <<>>]_vars

\* A fetch was rejected while the store still held the data an earlier
\* request had left in it, and the store holds them afterwards.
C13_Witness ==
  \E r \in Reqs :
    /\ Rejected(r)
    /\ pc[r] = "done"
    /\ store # StoreDefaults

\* The state of the store of request r of the actions middleware once its
\* own actions have run: its types and value as parsed, its conversions.
OwnActionsState(r) ==
  LET qb == _getQueryBootstrap(query[r]) IN
    [conversions |-> Conversions(r), types |-> qb.types, value |-> qb.value]

\* C14: however the requests of the actions middleware interleave, the store
\* and the listeners of a pending request are those its own handler and its
\* own events made, and its snapshot and markup show its own data only.
C14_ActionsRequestsIsolated ==
  \A r \in Reqs :
    strategy[r] = "actions" =>
      /\ pc[r] = "waiting" =>
           /\ listeners[r] = {UPDATE_CONVERSIONS, CONVERSION_ERROR}
           /\ fluxes[r].types = OwnActionsState(r).types
           /\ fluxes[r].value = OwnActionsState(r).value
           /\ fluxes[r].conversions \in
                {StoreDefaults.conversions, Conversions(r)}
      /\ locals[r].bootstrapData # <<>> =>
           locals[r].bootstrapData = <<TakeSnapshot(OwnActionsState(r))>>
      /\ locals[r].bootstrapComponent # <<>> =>
           locals[r].bootstrapComponent =
             <<RenderToString(OwnActionsState(r))>>

\* Two requests with different instructions were in flight together: the
\* later one has its snapshot and is torn down, the earlier one still waits.
C14_Witness ==
  \E r1, r2 \in Reqs :
    /\ r1 < r2
    /\ strategy[r1] = "actions" /\ strategy[r2] = "actions"
    /\ query[r1] # query[r2]
    /\ pc[r1] = "waiting"
    /\ pc[r2] = "done"
    /\ locals[r2].bootstrapData # <<>>

\* The string has a colon.
HasColon(s) == \E i \in 1..Len(s) : s[i] = ":"

\* The position of the first colon of a string that has one.
FirstColon(s) ==
  CHOOSE i \in 1..Len(s) : s[i] = ":" /\ \A j \in 1..(i - 1) : s[j] # ":"

\* The text before the first colon: the whole string when it has none.
BeforeFirstColon(s) ==
  IF HasColon(s) THEN SubSeq(s, 1, FirstColon(s) - 1) ELSE s

\* The whole text after the first colon: undefined when there is none.
AfterFirstColon(s) ==
  IF HasColon(s) THEN SubSeq(s, FirstColon(s) + 1, Len(s)) ELSE Undefined

\* C15: for every __bootstrap string with a non-empty types segment the
\* parser returns the text before the first colon as types and the whole
\* text after the first colon as value.
C15_SplitsOnFirstColon ==
  \A r \in Reqs :
    LET b == query[r].__bootstrap IN
      (pc[r] = "parsed" /\ b # Undefined /\ BeforeFirstColon(b) # <<>>) =>
        /\ parsed[r].types = BeforeFirstColon(b)
        /\ parsed[r].value = AfterFirstColon(b)

\* C16: a request that passed the gates of the actions middleware registered
\* its success and its error listener, then invoked setConversionTypes(types),
\* setConversionValue(value) and fetchConversions(types, value), in this order
\* and with the parsed instruction; until it is torn down both listeners are
\* registered, so every event its actions cause finds them.
C16_ListenersBeforeActions ==
  \A r \in Reqs :
    (strategy[r] = "actions" /\ pc[r] \in {"waiting", "done"}) =>
      LET types == OwnActionsState(r).types
          value == OwnActionsState(r).value
      IN
        /\ Len(log[r]) >= 6
        /\ SubSeq(log[r], 1, 6) =
             << <<"Flux">>,
                <<"addActionListener", UPDATE_CONVERSIONS>>,
                <<"addActionListener", CONVERSION_ERROR>>,
                <<"setConversionTypes", types>>,
                <<"setConversionValue", value>>,
                <<"fetchConversions", types, value>> >>
        /\ nextCalls[r] = <<>> =>
             listeners[r] = {UPDATE_CONVERSIONS, CONVERSION_ERROR}

\* A request with types "a" and value "1" has fired its actions and waits
\* for an event, no event delivered yet.
C16_Witness ==
  \E r \in Reqs :
    /\ strategy[r] = "actions"
    /\ pc[r] = "waiting"
    /\ query[r].__bootstrap = <<"a", ":", "1">>
    /\ Len(log[r]) = 6
    /\ fluxes[r].value = <<"1">>

\* The request passed the gates.
Gated(r) == pc[r] \in {"waiting", "done"}

\* What the request waits for has happened: its fetch has settled (fetch), or
\* an event was delivered to one of its listeners (actions).
Settled(r) ==
  \/ strategy[r] = "fetch" /\ pc[r] = "done"
  \/ strategy[r] = "actions" /\ Len(log[r]) > 6

\* C17: next is called for a request that passed the gates only in reaction
\* to the fetch settling or to an event; until then the listeners of an
\* actions request stay registered; and once the fetch has settled or an
\* event was delivered, next has been called.
C17_NextExactlyWhenSettled ==
  \A r \in Reqs :
    Gated(r) =>
      /\ nextCalls[r] # <<>> => Settled(r)
      /\ (strategy[r] = "actions" /\ nextCalls[r] = <<>>) =>
           listeners[r] = {UPDATE_CONVERSIONS, CONVERSION_ERROR}
      /\ Settled(r) => nextCalls[r] # <<>>

\* C18: next is called at most once for a request of the fetch middleware,
\* on every path through the `.then` and `.catch` callbacks.
C18_FetchNextAtMostOnce ==
  \A r \in Reqs : strategy[r] = "fetch" => Len(nextCalls[r]) <= 1

\* C19: a request for which next was called without an error and whose
\* snapshot is written has its markup written, and res.locals is written
\* only for requests that are not in "noss" mode.
C19_MarkupWheneverSnapshot ==
  \A r \in Reqs :
    /\ (NoErr \in Range(nextCalls[r]) /\ locals[r].bootstrapData # <<>>) =>
         locals[r].bootstrapComponent # <<>>
    /\ locals[r] # NoLocals => query[r].__mode # Noss

\* In both middlewares a request ended with next() and has the snapshot and
\* the markup of its own data in res.locals.
C19_Witness ==
  \E r1, r2 \in Reqs :
    /\ strategy[r1] = "fetch" /\ strategy[r2] = "actions"
    /\ nextCalls[r1] = <<NoErr>> /\ nextCalls[r2] = <<NoErr>>
    /\ locals[r1] = [bootstrapData |-> <<TakeSnapshot(OwnState(r1))>>,
                     bootstrapComponent |-> <<RenderToString(OwnState(r1))>>]
    /\ locals[r2] =
         [bootstrapData |-> <<TakeSnapshot(OwnActionsState(r2))>>,
          bootstrapComponent |-> <<RenderToString(OwnActionsState(r2))>>]

====
